---------------------------- MODULE Spec2Model ----------------------------
(***************************************************************************)
(* PlayService (src/src/viewer/PlayService.ts): the playback / prefetch    *)
(* engine of the viewer.  The service owns five rxjs subscriptions (graph  *)
(* mode switcher, prefetch scheduler, append worker, clear worker and      *)
(* termination watcher) that react to the state service's frames and head  *)
(* changes, to the graph service's mode and to its own direction and speed *)
(* subjects.  Every action below is one event of the single-threaded event *)
(* loop, executed to completion, every synchronous callback included.      *)
(***************************************************************************)
EXTENDS Integers, Sequences, FiniteSets, TLC

(***************************************************************************)
(* Bounds of the model.                                                    *)
(***************************************************************************)
\* A cancelled fetch that is still on the network is counted up to here.
MaxOrphans == 1
\* Head events one playing session may see.
MaxHeadEvents == 2
\* Prefetch node fetches in flight at a time.
MaxInFlight == 2
\* Keys waiting for a slot of the pool, where the pool is studied.
MaxBuffered == 2

(***************************************************************************)
(* Program constants.                                                      *)
(***************************************************************************)
\* mergeMap(..., 6)
PoolSize == 6
\* retry(3)
RetryCount == 3
\* bufferCount(1, 10)
BufferEvery == 10
\* speed > 0.54, in hundredths
ModeThreshold == 54
\* this._speed = 0.5, in hundredths
InitialSpeed == 50
\* fixed point: one unit of the advance rate
SCALE == 1000000

(***************************************************************************)
(* SpeedModel: _mapSpeed and _mapNodesAhead.  A ui speed is an integer     *)
(* number of hundredths; an advance rate is a fixed-point number with      *)
(* SCALE units to one.  10^x is exp(x ln 10), summed as a Taylor series.   *)
(***************************************************************************)
Max(a, b) == IF a >= b THEN a ELSE b
Min(a, b) == IF a <= b THEN a ELSE b

\* a * b / SCALE without leaving 32 bits
MulS(a, b) ==
    LET ah == a \div 1000
        al == a % 1000
        bh == b \div 1000
        bl == b % 1000
    IN  ah * bh + (ah * bl + al * bh + (al * bl) \div 1000) \div 1000

RECURSIVE ExpSum(_, _, _)
ExpSum(z, n, term) ==
    IF n > 24 THEN 0
    ELSE LET t == MulS(term, z) \div n
         IN  t + ExpSum(z, n + 1, t)

\* 10^x for x = (2 speed - 100) / 100
Pow10(speed) ==
    LET z == ((2 * speed - 100) * 2302585) \div 100
    IN  SCALE + ExpSum(z, 1, SCALE)

\* Math.pow(10, x) - 0.2 * x, for every ui speed of [0, 1]
SpeedTable == [s \in 0 .. 100 |-> Pow10(s) - 2000 * (2 * s - 100)]

mapSpeed(speed) == SpeedTable[speed]

\* faulty variant: the lookahead is rounded but not clamped
mapNodesAheadNoClamp(stateSpeed) == (8 * SCALE + 6 * stateSpeed + SCALE \div 2) \div SCALE
mapNodesAhead(stateSpeed) ==
    (Max(10 * SCALE, Min(50 * SCALE, 8 * SCALE + 6 * stateSpeed)) + SCALE \div 2) \div SCALE

\* faulty variant: the speed wraps around instead of being clamped
ClampSpeedWraps(speed) == speed % 101
\* Math.max(0, Math.min(1, speed))
ClampSpeed(speed) == Max(0, Min(100, speed))

(***************************************************************************)
(* The graph the viewer plays in: two sequences, sequence edges along      *)
(* each, and one spatial direction.  Key 0 stands for "no key".            *)
(***************************************************************************)
NoKey == 0
Directions == {"Next", "Prev", "StepForward"}
IsSequenceDirection(d) == d \in {"Next", "Prev"}

SequenceKeys(seq) == IF seq = 1 THEN <<1, 2, 3>> ELSE <<4>>
SequenceKeyOf(key) == IF key \in {1, 2, 3} THEN 1 ELSE 2

\* the key an edge of direction d leads to from key, NoKey when there is none
EdgeTo(key, d) ==
    CASE d = "Next" -> IF key \in {1, 2} THEN key + 1 ELSE NoKey
      [] d = "Prev" -> IF key \in {2, 3} THEN key - 1 ELSE NoKey
      [] OTHER      -> IF key \in {1, 2, 3} THEN 4 ELSE NoKey


(***************************************************************************)
(* PrefetchScheduler: one step of the scan over the trajectory frames.     *)
(* sequenceKeys is the oriented key list, lastRequestKey the accumulated   *)
(* key (NoKey for undefined), lastTrajectoryKey and frameAhead the frame,  *)
(* lookahead the value of this._nodesAhead when the frame arrives.         *)
(***************************************************************************)
Reverse(s) == [i \in 1 .. Len(s) |-> s[Len(s) + 1 - i]]

\* Array.prototype.indexOf: zero based, -1 when absent
IndexOf(s, k) ==
    IF \E i \in 1 .. Len(s) : s[i] = k
    THEN (CHOOSE i \in 1 .. Len(s) : s[i] = k /\ \A j \in 1 .. i - 1 : s[j] # k) - 1
    ELSE -1

\* faulty variant: the slice leaves out its first element
SliceSkipsFirst(s, start, end) ==
    [i \in 1 .. Max(0, Min(end, Len(s)) - start - 1) |-> s[start + 1 + i]]
\* Array.prototype.slice(start, end) for 0 <= start
Slice(s, start, end) == [i \in 1 .. Max(0, Min(end, Len(s)) - start) |-> s[start + i]]

\* sequence.keys.slice(), reversed for Prev
OrientedKeys(keys, d) == IF d = "Prev" THEN Reverse(keys) ELSE keys

\* sequenceKeys[i] of the zero-based index i: undefined outside the array
At(s, i) == IF i + 1 \in 1 .. Len(s) THEN s[i + 1] ELSE NoKey

\* faulty variant: the batch starts at the accumulated key itself
ScanStartRepeats(sequenceKeys, last) == IndexOf(sequenceKeys, last)
ScanStart(sequenceKeys, last) == IndexOf(sequenceKeys, last) + 1

\* faulty variant: the end is not clamped to the last index
ScanEndNoClamp(lastIndex, current, lookahead, frameAhead) ==
    (current + lookahead - frameAhead) + 1
ScanEnd(lastIndex, current, lookahead, frameAhead) ==
    Min(lastIndex, current + lookahead - frameAhead) + 1

\* faulty variant: a frame with exactly lookahead nodes ahead still requests
ScanIdleStrict(frameAhead, lookahead, finalKey, last) ==
    frameAhead > lookahead \/ finalKey = last
\* nothing to request: enough nodes ahead, or the final key was requested
ScanIdle(frameAhead, lookahead, finalKey, last) ==
    frameAhead >= lookahead \/ finalKey = last

ScanStep(sequenceKeys, lastRequestKey, lastTrajectoryKey, frameAhead, lookahead) ==
    LET last      == IF lastRequestKey = NoKey THEN lastTrajectoryKey ELSE lastRequestKey
        lastIndex == Len(sequenceKeys) - 1
        idle      == ScanIdle(frameAhead, lookahead, At(sequenceKeys, lastIndex), last)
        current   == IndexOf(sequenceKeys, lastTrajectoryKey)
        start     == ScanStart(sequenceKeys, last)
        end       == ScanEnd(lastIndex, current, lookahead, frameAhead)
    IN  IF idle
        THEN [last |-> last, batch |-> <<>>]
        ELSE IF end <= start
             THEN [last |-> last, batch |-> <<>>]
             ELSE [last |-> At(sequenceKeys, end - 1),
                   batch |-> Slice(sequenceKeys, start, end)]

(***************************************************************************)
(* State.  The first group are the fields of PlayService; a subscription   *)
(* field is "null" (undefined or null), "open" or "closed".  The second    *)
(* group is what the collaborators hold, the third the operators' own      *)
(* memory inside the five pipelines, the last the record of the step.      *)
(***************************************************************************)
VARIABLES
    playing, speed, nodesAhead, direction,
    stopSubscription, graphModeSubscription, cacheSubscription,
    playingSubscription, clearSubscription,
    stateSpeed, graphMode, head,
    switcher, cache, pool, append, clearCount, watch,
    orphans, op, calls, window, scanCase, speedCase

vars == <<playing, speed, nodesAhead, direction,
          stopSubscription, graphModeSubscription, cacheSubscription,
          playingSubscription, clearSubscription,
          stateSpeed, graphMode, head,
          switcher, cache, pool, append, clearCount, watch,
          orphans, op, calls, window, scanCase, speedCase>>

\* the state as one value, for the handlers below
St ==
    [playing |-> playing, speed |-> speed, nodesAhead |-> nodesAhead,
     direction |-> direction,
     stopSubscription |-> stopSubscription,
     graphModeSubscription |-> graphModeSubscription,
     cacheSubscription |-> cacheSubscription,
     playingSubscription |-> playingSubscription,
     clearSubscription |-> clearSubscription,
     stateSpeed |-> stateSpeed, graphMode |-> graphMode, head |-> head,
     switcher |-> switcher, cache |-> cache, pool |-> pool, append |-> append,
     clearCount |-> clearCount, watch |-> watch,
     orphans |-> orphans, op |-> op, calls |-> calls, window |-> window]

Commit(r) ==
    /\ playing' = r.playing
    /\ speed' = r.speed
    /\ nodesAhead' = r.nodesAhead
    /\ direction' = r.direction
    /\ stopSubscription' = r.stopSubscription
    /\ graphModeSubscription' = r.graphModeSubscription
    /\ cacheSubscription' = r.cacheSubscription
    /\ playingSubscription' = r.playingSubscription
    /\ clearSubscription' = r.clearSubscription
    /\ stateSpeed' = r.stateSpeed
    /\ graphMode' = r.graphMode
    /\ head' = r.head
    /\ switcher' = r.switcher
    /\ cache' = r.cache
    /\ pool' = r.pool
    /\ append' = r.append
    /\ clearCount' = r.clearCount
    /\ watch' = r.watch
    /\ orphans' = r.orphans
    /\ op' = r.op
    /\ calls' = r.calls
    /\ window' = r.window
    /\ UNCHANGED <<scanCase, speedCase>>

\* the operators' memory of a pipeline nobody is subscribed to
NoCache == [key |-> 0, fetchSeq |-> 0, fetchDir |-> "Next", tries |-> 0,
            scanSeq |-> 0, scanDir |-> "Next", lastRequestKey |-> NoKey]
NoPool == [active |-> 0, buffer |-> <<>>]
NoAppend == [key |-> NoKey, phase |-> "idle", node |-> NoKey, dir |-> "Next",
             target |-> NoKey]
NoWatch == [phase |-> "idle", node |-> NoKey, dir |-> "Next"]
\* no case of the scan step under study
NoCase == [keys |-> <<>>, last |-> NoKey, tail |-> NoKey, ahead |-> 0, lookahead |-> 0,
           done |-> FALSE, out |-> [last |-> NoKey, batch |-> <<>>]]
\* no case of the speed model under study
NoSpeedCase == [lo |-> 0, hi |-> 0, done |-> FALSE,
                loRate |-> 0, hiRate |-> 0, loAhead |-> 0, hiAhead |-> 0]
\* the ghost of the prefetch windows: the keys emitted since the scan was
\* seeded (win) and since the active sequence key last changed (seq), and
\* whether the last batch repeated one of them or moved backward
NoWindow == [win |-> {}, seq |-> {}, repeatWin |-> FALSE, repeatSeq |-> FALSE,
             backward |-> FALSE]

\* a call to a collaborator, an emission of a subject or an internal event
Log(r, c, v, m) == [r EXCEPT !.calls = Append(@, [c |-> c, v |-> v, m |-> m])]
\* a request whose subscriber has gone with stop() stays on the network; it
\* is followed until it answers or the next play()
Orphan(r, n) == [r EXCEPT !.orphans = Min(MaxOrphans, @ + n)]

Begin(name) ==
    [St EXCEPT !.op = name, !.calls = <<>>,
               !.window.repeatWin = FALSE, !.window.repeatSeq = FALSE,
               !.window.backward = FALSE]

Count(c, m) == Cardinality({i \in 1 .. Len(calls) : calls[i].c = c /\ calls[i].m = m})
Called(c) == \E i \in 1 .. Len(calls) : calls[i].c = c
CalledWith(c, m) == \E i \in 1 .. Len(calls) : calls[i].c = c /\ calls[i].m = m

(***************************************************************************)
(* _setPlaying and _setSpeed.                                              *)
(***************************************************************************)
setPlaying(r, value) ==
    Log([r EXCEPT !.playing = value], "playing$", 0, IF value THEN "true" ELSE "false")

\* returns the record with _speed and _nodesAhead set; the advance rate it
\* returns is mapSpeed(speed)
\* faulty variant: the lookahead is not recomputed
setSpeedFieldsStale(r, value) == [r EXCEPT !.speed = value]
setSpeedFields(r, value) ==
    [r EXCEPT !.speed = value, !.nodesAhead = mapNodesAhead(mapSpeed(value))]

(***************************************************************************)
(* PrefetchScheduler, its outer part: the combineLatest of the distinct    *)
(* sequence key, the graph mode and the direction has emitted, and the     *)
(* first switchMap takes the triple.                                       *)
(***************************************************************************)
\* faulty variant: the sequence is fetched whatever the direction
CacheCombineLatestAnyDirection(r) ==
    Log([r EXCEPT !.cache.fetchSeq = r.cache.key,
                  !.cache.fetchDir = r.direction,
                  !.cache.tries = 0],
        IF r.graphMode = "Sequence" THEN "cacheSequenceNodes$" ELSE "cacheSequence$",
        r.cache.key, "")
CacheCombineLatest(r) ==
    LET c  == r.cache
        r1 == r
    IN  IF ~IsSequenceDirection(r.direction)
        THEN \* [undefined, direction] at once: the second switchMap drops the scan
             [r1 EXCEPT !.cache = [NoCache EXCEPT !.key = c.key],
                        !.window.win = {}]
        ELSE Log([r1 EXCEPT !.cache.fetchSeq = c.key,
                            !.cache.fetchDir = r.direction,
                            !.cache.tries = 0],
                 IF r.graphMode = "Sequence" THEN "cacheSequenceNodes$" ELSE "cacheSequence$",
                 c.key, "")

(***************************************************************************)
(* GraphService.setGraphMode: graphMode$ emits the mode when it changes,   *)
(* and the prefetch pipeline, when subscribed and holding a sequence key,  *)
(* takes it.                                                               *)
(***************************************************************************)
setGraphMode(r, mode) ==
    LET r1 == Log([r EXCEPT !.graphMode = mode], "setGraphMode", 0, mode)
    IN  IF r.graphMode # mode /\ r.cacheSubscription = "open" /\ r.cache.key # 0
        THEN CacheCombineLatest(r1)
        ELSE r1

(***************************************************************************)
(* Unsubscribing a pipeline: its operators forget what they hold and the   *)
(* requests they wait for lose their subscriber.                           *)
(***************************************************************************)
UnsubscribeWatcher(r) ==
    [Orphan(r, IF r.watch.phase = "edges" THEN 1 ELSE 0) EXCEPT !.watch = NoWatch]
UnsubscribeSwitcher(r) == [r EXCEPT !.switcher = "none"]
UnsubscribeCache(r) ==
    [Orphan(r, (IF r.cache.fetchSeq # 0 THEN 1 ELSE 0) + r.pool.active)
        EXCEPT !.cache = NoCache, !.pool = NoPool, !.window = NoWindow]
UnsubscribeAppend(r) ==
    [Orphan(r, IF r.append.phase # "idle" THEN 1 ELSE 0) EXCEPT !.append = NoAppend]
UnsubscribeClear(r) == [r EXCEPT !.clearCount = 0]

(***************************************************************************)
(* stop()                                                                  *)
(***************************************************************************)
\* faulty variant: the clear worker is left subscribed
StopClearForgotten(r) == r
StopClear(r) ==
    Log([UnsubscribeClear(r) EXCEPT !.clearSubscription = "null"], "unsubscribe", 0, "clear")

stopTeardown(r) ==
    LET r1 == IF r.stopSubscription # "null"
              THEN [(IF r.stopSubscription = "open"
                     THEN Log(UnsubscribeWatcher(r), "unsubscribe", 0, "stop")
                     ELSE r)
                       EXCEPT !.stopSubscription = "null"]
              ELSE r
        r2 == Log([UnsubscribeSwitcher(r1) EXCEPT !.graphModeSubscription = "null"],
                  "unsubscribe", 0, "graphMode")
        r3 == Log([UnsubscribeCache(r2) EXCEPT !.cacheSubscription = "null"],
                  "unsubscribe", 0, "cache")
        r4 == Log([UnsubscribeAppend(r3) EXCEPT !.playingSubscription = "null"],
                  "unsubscribe", 0, "playing")
    IN  StopClear(r4)

\* faulty variant: only the flag is reset
stopResetOnlyFlag(r) == setPlaying(r, FALSE)
stopReset(r) ==
    LET r1 == Log([r EXCEPT !.stateSpeed = SCALE], "setSpeed", SCALE, "")
        r2 == Log(r1, "cutNodes", 0, "")
        r3 == setGraphMode(r2, "Spatial")
    IN  setPlaying(r3, FALSE)

\* faulty variant: the collaborators are reset before the workers are
\* cancelled
stopResetFirst(r) ==
    IF ~r.playing
    THEN r
    ELSE stopTeardown(stopReset(Log(r, "stop", 0, "")))
\* faulty variant: stop() without its guard
stopUnguarded(r) == stopReset(stopTeardown(Log(r, "stop", 0, "")))
stop(r) ==
    IF ~r.playing
    THEN r
    ELSE stopReset(stopTeardown(Log(r, "stop", 0, "")))

(***************************************************************************)
(* TerminationWatcher.  res is what the head's edge status does: pending,  *)
(* cached (the status arrives, with the edges of the graph), error, or     *)
(* timeout; a cached status may arrive while the switchMap subscribes.     *)
(***************************************************************************)
\* faulty variants: every status has an edge; a failed status has one
hasEdgeAlways(res, node, d) == TRUE
hasEdgeUnlessFailed(res, node, d) == res # "cached" \/ EdgeTo(node, d) # NoKey
\* the map over the edge status: the catch has replaced a failure by a
\* status without edges
hasEdge(res, node, d) == res = "cached" /\ EdgeTo(node, d) # NoKey

\* faulty variant: the complete callback does nothing
WatchCompleteIdle(r) == r
\* the complete callback of the subscription
WatchComplete(r) == stop(r)

WatchResolve(r, res) ==
    IF res = "pending"
    THEN r
    ELSE LET found == hasEdge(res, r.watch.node, r.watch.dir)
             r0 == Log(r, "edgeStatus",
                       IF res = "cached" THEN EdgeTo(r.watch.node, r.watch.dir) ELSE NoKey,
                       res)
             r1 == IF res = "cached" THEN r0
                   ELSE Log(Log(r0, "watchError", 0, res), "console.error", 0, "watcher")
             r2 == Log([r1 EXCEPT !.watch = NoWatch], "hasEdge", IF found THEN 1 ELSE 0, "")
         IN  IF found
             THEN r2
             ELSE \* first(!hasEdge) completes
                  LET r3 == WatchComplete([r2 EXCEPT !.watch.phase = "done"])
                  IN  IF r3.stopSubscription = "open"
                      THEN [r3 EXCEPT !.stopSubscription = "closed", !.watch = NoWatch]
                      ELSE r3

\* combineLatest(currentNode$, direction$) has emitted: the switchMap
WatchStart(r, res) ==
    LET r1 == r
    IN  WatchResolve([r1 EXCEPT !.watch = [phase |-> "edges", node |-> r.head,
                                           dir |-> r.direction]], res)

(***************************************************************************)
(* AppendWorker.  eres is what the tail's edge status does, nres what the  *)
(* fetch of the target node does.                                          *)
(***************************************************************************)
AppendError(r, why) ==
    LET r1 == Log(Log([r EXCEPT !.append = NoAppend], "appendError", 0, why),
                  "console.error", 0, "append")
        r2 == stop(r1)
    IN  [r2 EXCEPT !.playingSubscription = IF @ = "open" THEN "closed" ELSE @]

AppendNode(r, nres) ==
    CASE nres = "pending" -> r
      [] nres = "ok" -> Log([r EXCEPT !.append.phase = "idle", !.append.node = NoKey,
                                      !.append.target = NoKey],
                            "appendNodes", r.append.target, "")
      [] OTHER -> AppendError(r, "node")

\* faulty variant: a status without an edge of the direction is a failure
AppendEdgesNoEdgeFails(r, eres, nres) ==
    CASE eres = "pending" -> r
      [] eres = "cached" ->
            LET t == EdgeTo(r.append.node, r.append.dir)
            IN  IF t = NoKey
                THEN AppendError(Log(r, "appendNoEdge", 0, ""), "noEdge")
                ELSE AppendNode(Log([r EXCEPT !.append.phase = "node", !.append.target = t],
                                    "cacheNode$", t, "append"), nres)
      [] OTHER -> AppendError(r, eres)
AppendEdges(r, eres, nres) ==
    CASE eres = "pending" -> r
      [] eres = "cached" ->
            LET t == EdgeTo(r.append.node, r.append.dir)
            IN  IF t = NoKey
                THEN Log([r EXCEPT !.append.phase = "idle", !.append.node = NoKey],
                         "appendNoEdge", 0, "")
                ELSE AppendNode(Log([r EXCEPT !.append.phase = "node", !.append.target = t],
                                    "cacheNode$", t, "append"), nres)
      [] OTHER -> AppendError(r, eres)

\* faulty variant: every frame with a new tail passes
AppendFrameUnfiltered(r, tail, ahead, eres, nres) ==
    IF tail = r.append.key
    THEN r
    ELSE AppendEdges([r EXCEPT !.append = [key |-> tail, phase |-> "edges",
                                           node |-> tail, dir |-> r.direction,
                                           target |-> NoKey]], eres, nres)
\* faulty variant: a new tail waits while a resolution is in flight
AppendFrameExhaust(r, tail, ahead, eres, nres) ==
    IF ~(ahead < r.nodesAhead) \/ tail = r.append.key
    THEN r
    ELSE IF r.append.phase # "idle"
         THEN [r EXCEPT !.append.key = tail]
         ELSE AppendEdges([r EXCEPT !.append = [key |-> tail, phase |-> "edges",
                                                node |-> tail, dir |-> r.direction,
                                                target |-> NoKey]], eres, nres)
\* a frame reaches the filter of the append pipeline
AppendFrame(r, tail, ahead, eres, nres) ==
    IF ~(ahead < r.nodesAhead) \/ tail = r.append.key
    THEN r
    ELSE \* switchMap: the request of an earlier tail loses its subscriber
         LET r1 == Orphan(r, IF r.append.phase # "idle" THEN 1 ELSE 0)
         IN  AppendEdges([r1 EXCEPT !.append = [key |-> tail, phase |-> "edges",
                                                node |-> tail, dir |-> r.direction,
                                                target |-> NoKey]], eres, nres)

(***************************************************************************)
(* PrefetchScheduler, its inner part: the scan over the frames and the     *)
(* pool of node fetches, mergeMap(..., 6).                                 *)
(***************************************************************************)
\* faulty variant: every key is fetched at once
PoolPushUnbounded(r, key) ==
    Log([r EXCEPT !.pool.active = @ + 1], "cacheNode$", key, "prefetch")
PoolPush(r, key) ==
    IF r.pool.active < PoolSize
    THEN Log([r EXCEPT !.pool.active = @ + 1], "cacheNode$", key, "prefetch")
    ELSE [r EXCEPT !.pool.buffer = Append(@, key)]

RECURSIVE PoolPushAll(_, _)
PoolPushAll(r, batch) ==
    IF batch = <<>> THEN r
    ELSE PoolPushAll(PoolPush(Log(r, "emit", Head(batch), ""), Head(batch)), Tail(batch))

Range(s) == {s[i] : i \in 1 .. Len(s)}

\* faulty variant: the scan keeps the lookahead of the initial speed
ScanFrameInitialLookahead(r, tail, ahead) ==
    LET keys == OrientedKeys(SequenceKeys(r.cache.scanSeq), r.cache.scanDir)
        step == ScanStep(keys, r.cache.lastRequestKey, tail, ahead,
                         mapNodesAhead(mapSpeed(InitialSpeed)))
    IN  PoolPushAll(Log(Log([r EXCEPT !.cache.lastRequestKey = step.last],
                            "tail", tail, ""),
                        "scan", Len(step.batch), ""), step.batch)
\* the frame reaches the scan of the live window
ScanFrame(r, tail, ahead) ==
    LET keys  == OrientedKeys(SequenceKeys(r.cache.scanSeq), r.cache.scanDir)
        old   == r.cache.lastRequestKey
        step  == ScanStep(keys, old, tail, ahead, r.nodesAhead)
        batch == Range(step.batch)
        w     == r.window
        r1    == [r EXCEPT !.cache.lastRequestKey = step.last,
                           !.window = [win |-> w.win \cup batch,
                                       seq |-> w.seq \cup batch,
                                       repeatWin |-> batch \cap w.win # {},
                                       repeatSeq |-> batch \cap w.seq # {},
                                       backward |-> /\ old # NoKey
                                                    /\ step.last # old
                                                    /\ IndexOf(keys, step.last)
                                                         <= IndexOf(keys, old)]]
    IN  PoolPushAll(Log(Log(Log(r1, "tail", tail, ""), "ahead", ahead, ""),
                        "scan", Len(step.batch), ""), step.batch)

\* a node fetch of the pool has completed or failed: its slot is free
PoolRelease(r) ==
    LET r1 == [r EXCEPT !.pool.active = @ - 1]
    IN  IF r1.pool.buffer = <<>>
        THEN r1
        ELSE Log([r1 EXCEPT !.pool.active = @ + 1, !.pool.buffer = Tail(@)],
                 "cacheNode$", Head(r1.pool.buffer), "prefetch")

\* faulty variant: the failure of a node fetch leaves the mergeMap and ends
\* the pipeline, which has no error callback
PrefetchFailureUncaught(r) ==
    [UnsubscribeCache(r) EXCEPT !.cacheSubscription = "closed"]
\* a node fetch of the pool has failed: catch turns it into an empty stream
PrefetchFailure(r) == PoolRelease(r)

\* the sequence fetch has answered
\* faulty variant: a failed fetch is given up at once
SequenceAnswerNoRetry(r, ok) ==
    IF ok
    THEN [r EXCEPT !.cache = [r.cache EXCEPT !.fetchSeq = 0, !.fetchDir = "Next",
                                             !.tries = 0,
                                             !.scanSeq = r.cache.fetchSeq,
                                             !.scanDir = r.cache.fetchDir,
                                             !.lastRequestKey = NoKey],
                   !.window.win = {}]
    ELSE [r EXCEPT !.cache = [NoCache EXCEPT !.key = r.cache.key], !.window.win = {}]
SequenceAnswer(r, ok) ==
    LET c == r.cache
    IN  IF ok
        THEN [r EXCEPT !.cache = [c EXCEPT !.fetchSeq = 0, !.fetchDir = "Next", !.tries = 0,
                                           !.scanSeq = c.fetchSeq, !.scanDir = c.fetchDir,
                                           !.lastRequestKey = NoKey],
                       !.window.win = {}]
        ELSE IF c.tries < RetryCount
             THEN Log([r EXCEPT !.cache.tries = @ + 1],
                      IF r.graphMode = "Sequence" THEN "cacheSequenceNodes$"
                      ELSE "cacheSequence$", c.fetchSeq, "retry")
             ELSE \* catch: of(undefined), and the second switchMap drops the scan
                  [r EXCEPT !.cache = [NoCache EXCEPT !.key = c.key], !.window.win = {}]

\* currentNode$ reaches the prefetch pipeline: distinctUntilChanged on the
\* sequence key, then combineLatest
\* faulty variant: every head reaches combineLatest
CacheHeadEveryHead(r) ==
    CacheCombineLatest([r EXCEPT !.cache.key = SequenceKeyOf(r.head), !.window.seq = {}])
CacheHead(r) ==
    IF SequenceKeyOf(r.head) = r.cache.key
    THEN r
    ELSE CacheCombineLatest([r EXCEPT !.cache.key = SequenceKeyOf(r.head),
                                      !.window.seq = {}])

(***************************************************************************)
(* ClearWorker: bufferCount(1, 10) over the head events.                   *)
(***************************************************************************)
\* faulty variant: the history is trimmed on every tenth head event
ClearHeadTenth(r) ==
    LET r1 == [r EXCEPT !.clearCount = @ + 1]
    IN  IF r1.clearCount % BufferEvery = 0
        THEN Log(r1, "clearPriorNodes", 0, "")
        ELSE r1
ClearHead(r) ==
    LET r1 == [r EXCEPT !.clearCount = @ + 1]
    IN  IF r.clearCount % BufferEvery = 0
        THEN Log(r1, "clearPriorNodes", 0, "")
        ELSE r1

(***************************************************************************)
(* GraphModeSwitcher: map, distinctUntilChanged, setGraphMode.             *)
(***************************************************************************)
\* faulty variant: the threshold itself counts as fast
SpeedToModeInclusive(value) == IF value >= ModeThreshold THEN "Sequence" ELSE "Spatial"
SpeedToMode(value) == IF value > ModeThreshold THEN "Sequence" ELSE "Spatial"

\* faulty variant: the mode is applied on every speed
SwitcherSpeedEveryTick(r) ==
    setGraphMode(Log([r EXCEPT !.switcher = SpeedToMode(r.speed)], "modeSwitch", 0,
                     SpeedToMode(r.speed)),
                 SpeedToMode(r.speed))
SwitcherSpeed(r) ==
    LET mode == SpeedToMode(r.speed)
    IN  IF mode = r.switcher
        THEN r
        ELSE setGraphMode(Log([r EXCEPT !.switcher = mode], "modeSwitch", 0, mode), mode)

(***************************************************************************)
(* The public operations.  A frame f is [tail, ahead]; NoFrame says that   *)
(* currentState$ emits nothing while the append pipeline subscribes.       *)
(***************************************************************************)
NoFrame == [tail |-> NoKey, ahead |-> 0]

\* faulty variant: the workers start on the pending nodes
playPrepareNoCut(r) ==
    LET r2 == setSpeedFields(r, r.speed)
    IN  Log([r2 EXCEPT !.stateSpeed = mapSpeed(r2.speed)], "setSpeed", mapSpeed(r2.speed), "")
\* cutNodes(), _setSpeed(this._speed), setSpeed(stateSpeed)
playPrepare(r) ==
    LET r1 == Log(r, "cutNodes", 0, "")
        r2 == setSpeedFields(r1, r1.speed)
    IN  Log([r2 EXCEPT !.stateSpeed = mapSpeed(r2.speed)], "setSpeed", mapSpeed(r2.speed), "")

play(r, f, eres, nres, wres) ==
    IF r.playing
    THEN r
    ELSE LET r3 == playPrepare([r EXCEPT !.orphans = 0])
             \* _graphModeSubscription: speed$ replays the speed
             r4 == SwitcherSpeed(Log([r3 EXCEPT !.graphModeSubscription = "open",
                                                !.switcher = "none"],
                                     "subscribe", 0, "graphMode"))
             \* _cacheSubscription: currentNode$ replays the head
             c0 == Log([r4 EXCEPT !.cacheSubscription = "open", !.cache = NoCache,
                                  !.pool = NoPool, !.window = NoWindow],
                       "subscribe", 0, "cache")
             r5 == IF c0.head # NoKey THEN CacheHead(c0) ELSE c0
             \* _playingSubscription: currentState$ may emit a frame at once
             a0 == Log([r5 EXCEPT !.playingSubscription = "open", !.append = NoAppend],
                       "subscribe", 0, "playing")
             r6 == IF f # NoFrame /\ a0.head # NoKey
                   THEN AppendFrame(a0, f.tail, f.ahead, eres, nres)
                   ELSE a0
             \* _clearSubscription: currentNode$ replays the head
             k0 == Log([r6 EXCEPT !.clearSubscription = "open", !.clearCount = 0],
                       "subscribe", 0, "clear")
             r7 == IF k0.head # NoKey THEN ClearHead(k0) ELSE k0
             r8 == Log(setPlaying(r7, TRUE), "subscribe", 0, "stop")
             \* _stopSubscription: currentNode$ and direction$ replay
             r9 == IF r8.head # NoKey THEN WatchStart(r8, wres) ELSE r8
         IN  IF r9.watch.phase = "done"
             THEN [r9 EXCEPT !.watch = NoWatch, !.stopSubscription = "null"]
             ELSE [r9 EXCEPT !.stopSubscription = "open"]

\* faulty variant: a direction change resumes playback
setDirectionResuming(r, d, wres) ==
    play(Log([r EXCEPT !.direction = d], "direction$", 0, d), NoFrame, "pending", "pending",
         wres)
setDirection(r, d, wres) ==
    LET r1 == Log([r EXCEPT !.direction = d], "direction$", 0, d)
        r2 == IF r1.cacheSubscription = "open" /\ r1.cache.key # 0
              THEN CacheCombineLatest(r1) ELSE r1
    IN  IF r2.stopSubscription = "open" /\ r2.head # NoKey
        THEN WatchStart(r2, wres) ELSE r2

\* faulty variant: the advance rate is passed on while stopped too
setSpeedAlways(r, value) ==
    LET v == ClampSpeed(value)
    IN  IF v = r.speed
        THEN r
        ELSE LET r1 == setSpeedFields(r, v)
                 r2 == Log([r1 EXCEPT !.stateSpeed = mapSpeed(v)], "setSpeed", mapSpeed(v), "")
                 r3 == Log(r2, "speed$", v, "")
             IN  IF r3.graphModeSubscription = "open" THEN SwitcherSpeed(r3) ELSE r3
setSpeed(r, value) ==
    LET v == ClampSpeed(value)
    IN  IF v = r.speed
        THEN r
        ELSE LET r1 == setSpeedFields(r, v)
                 r2 == IF r1.playing
                       THEN Log([r1 EXCEPT !.stateSpeed = mapSpeed(v)], "setSpeed", mapSpeed(v), "")
                       ELSE r1
                 r3 == Log(r2, "speed$", v, "")
             IN  IF r3.graphModeSubscription = "open" THEN SwitcherSpeed(r3) ELSE r3

(***************************************************************************)
(* The events of the state service.                                        *)
(***************************************************************************)
\* currentState$ emits: the append pipeline subscribed first
frame(r, tail, ahead, eres, nres) ==
    LET r1 == IF r.playingSubscription = "open"
              THEN AppendFrame(r, tail, ahead, eres, nres) ELSE r
    IN  IF r1.cacheSubscription = "open" /\ r1.cache.scanSeq # 0
        THEN ScanFrame(r1, tail, ahead) ELSE r1

\* currentNode$ emits: prefetch pipeline, clear worker, termination watcher
headChange(r, key, wres) ==
    LET r0 == [r EXCEPT !.head = key]
        r1 == IF r0.cacheSubscription = "open" THEN CacheHead(r0) ELSE r0
        r2 == IF r1.clearSubscription = "open" THEN ClearHead(r1) ELSE r1
    IN  IF r2.stopSubscription = "open" THEN WatchStart(r2, wres) ELSE r2

(***************************************************************************)
(* Inputs.  A world e names what the environment may do: the heads the     *)
(* state service moves to, the frames it emits, the directions and speeds  *)
(* the user sets, and how the graph service answers.  An answer in the     *)
(* sync sets arrives while the pipeline subscribes ("pending": not yet),   *)
(* one in the late sets arrives as an event of its own.                    *)
(***************************************************************************)
FramesOf(e) == [tail : e.tails, ahead : e.aheads]

Init ==
    /\ playing = FALSE
    /\ speed = InitialSpeed
    /\ nodesAhead = mapNodesAhead(mapSpeed(InitialSpeed))
    /\ direction = "Next"
    /\ stopSubscription = "null"
    /\ graphModeSubscription = "null"
    /\ cacheSubscription = "null"
    /\ playingSubscription = "null"
    /\ clearSubscription = "null"
    /\ stateSpeed = SCALE
    /\ graphMode = "Spatial"
    /\ head = NoKey
    /\ switcher = "none"
    /\ cache = NoCache
    /\ pool = NoPool
    /\ append = NoAppend
    /\ clearCount = 0
    /\ watch = NoWatch
    /\ orphans = 0
    /\ op = "init"
    /\ calls = <<>>
    /\ window = NoWindow
    /\ scanCase = NoCase
    /\ speedCase = NoSpeedCase

Play(e) ==
    \E f \in (IF head # NoKey /\ ~playing THEN FramesOf(e) \cup {NoFrame} ELSE {NoFrame}) :
    \E eres \in (IF f # NoFrame /\ f.ahead < mapNodesAhead(mapSpeed(speed))
                 THEN e.syncEdge ELSE {"pending"}) :
    \E nres \in (IF eres = "cached" THEN e.syncNode ELSE {"pending"}) :
    \E wres \in (IF head # NoKey /\ ~playing THEN e.syncWatch ELSE {"pending"}) :
        Commit(play(Begin("play"), f, eres, nres, wres))

Stop == Commit(stop(Begin("stop")))

SetDirection(e) ==
    \E d \in e.dirs :
    \E wres \in (IF stopSubscription = "open" /\ head # NoKey
                 THEN e.syncWatch ELSE {"pending"}) :
        Commit(setDirection(Begin("setDirection"), d, wres))

SetSpeed(e) == \E s \in e.speeds : Commit(setSpeed(Begin("setSpeed"), s))

Frame(e) ==
    /\ head # NoKey
    /\ \E f \in FramesOf(e) :
       \E eres \in (IF /\ playingSubscription = "open"
                       /\ f.ahead < nodesAhead
                       /\ f.tail # append.key
                    THEN e.syncEdge ELSE {"pending"}) :
       \E nres \in (IF eres = "cached" THEN e.syncNode ELSE {"pending"}) :
          LET r == frame(Begin("frame"), f.tail, f.ahead, eres, nres)
          IN  /\ r.pool.active <= e.inFlight
              /\ Len(r.pool.buffer) <= e.buffered
              /\ Commit(r)

HeadChange(e) ==
    /\ clearSubscription = "open" => clearCount < e.headEvents
    /\ \E key \in e.heads \ {head} :
       \E wres \in (IF stopSubscription = "open" THEN e.syncWatch ELSE {"pending"}) :
          Commit(headChange(Begin("headChange"), key, wres))

\* the edge status of the append worker's tail arrives, fails or is late
AppendEdgeStatus(e) ==
    /\ playingSubscription = "open"
    /\ append.phase = "edges"
    /\ \E eres \in e.lateEdge :
       \E nres \in (IF eres = "cached" THEN e.syncNode ELSE {"pending"}) :
          Commit(AppendEdges(Begin("appendEdgeStatus"), eres, nres))

\* the fetch of the append worker's target node answers
AppendNodeResult(e) ==
    /\ playingSubscription = "open"
    /\ append.phase = "node"
    /\ \E nres \in e.lateNode : Commit(AppendNode(Begin("appendNodeResult"), nres))

\* the edge status of the watcher's head arrives, fails or is late
WatchEdgeStatus(e) ==
    /\ stopSubscription = "open"
    /\ watch.phase = "edges"
    /\ \E res \in e.lateWatch : Commit(WatchResolve(Begin("watchEdgeStatus"), res))

\* the sequence fetch answers
SequenceResult(e) ==
    /\ cacheSubscription = "open"
    /\ cache.fetchSeq # 0
    /\ \E ok \in e.sequenceAnswers :
          Commit(SequenceAnswer(Log(Begin("sequenceResult"), "sequenceAnswer", 0,
                                    IF ok THEN "ok" ELSE "error"), ok))

\* a node fetch of the prefetch pool completes or fails (catch: empty)
PrefetchNodeResult ==
    /\ cacheSubscription = "open"
    /\ pool.active > 0
    /\ \E ok \in BOOLEAN :
          LET r == Log(Begin("prefetchNodeResult"), "prefetchResult", 0,
                       IF ok THEN "ok" ELSE "error")
          IN  Commit(IF ok THEN PoolRelease(r) ELSE PrefetchFailure(r))

\* a request whose subscriber has gone answers: nobody listens
OrphanResult ==
    /\ orphans > 0
    /\ Commit([Begin("orphanResult") EXCEPT !.orphans = @ - 1])

(***************************************************************************)
(* Spec: the whole service in a small world.  Every worker runs and every  *)
(* answer of the graph service can be early, late, or an error.            *)
(***************************************************************************)
World ==
    [heads |-> {1, 3}, dirs |-> Directions, speeds |-> {50, 200},
     tails |-> {1}, aheads |-> {0, 14},
     syncEdge |-> {"pending", "cached", "error"},
     syncNode |-> {"pending", "ok", "error"},
     lateEdge |-> {"cached", "error", "timeout"},
     lateNode |-> {"ok", "error"},
     syncWatch |-> {"pending", "cached", "error"},
     lateWatch |-> {"cached", "error", "timeout"},
     sequenceAnswers |-> {TRUE},
     inFlight |-> MaxInFlight, buffered |-> 0,
     headEvents |-> MaxHeadEvents]

Next ==
    \/ Play(World)
    \/ Stop
    \/ SetDirection(World)
    \/ SetSpeed(World)
    \/ Frame(World)
    \/ HeadChange(World)
    \/ AppendEdgeStatus(World)
    \/ AppendNodeResult(World)
    \/ WatchEdgeStatus(World)
    \/ SequenceResult(World)
    \/ PrefetchNodeResult
    \/ OrphanResult

Spec == Init /\ [][Next]_vars

(***************************************************************************)
(* SpecPrefetch: the prefetch scheduler in a world where the graph is      *)
(* cached (the append worker's answers arrive at once) and the watcher's   *)
(* edge status stays pending, with frames along the whole sequence.        *)
(***************************************************************************)
PrefetchWorld ==
    [heads |-> {1}, dirs |-> Directions, speeds |-> {50, 200},
     tails |-> {1, 2, 3}, aheads |-> {0, 12, 13},
     syncEdge |-> {"cached"},
     syncNode |-> {"ok"},
     lateEdge |-> {},
     lateNode |-> {},
     syncWatch |-> {"pending"},
     lateWatch |-> {},
     sequenceAnswers |-> {TRUE},
     inFlight |-> MaxInFlight, buffered |-> 0,
     headEvents |-> MaxHeadEvents]

NextPrefetch ==
    \/ Play(PrefetchWorld)
    \/ Stop
    \/ SetDirection(PrefetchWorld)
    \/ SetSpeed(PrefetchWorld)
    \/ Frame(PrefetchWorld)
    \/ HeadChange(PrefetchWorld)
    \/ SequenceResult(PrefetchWorld)
    \/ PrefetchNodeResult
    \/ OrphanResult

SpecPrefetch == Init /\ [][NextPrefetch]_vars

(***************************************************************************)
(* SpecScan: the scan step alone, on every oriented key list of up to      *)
(* MaxKeys keys, every accumulated key and tail key (one of them outside   *)
(* the list), and every lookahead and nodes ahead up to MaxLookahead.      *)
(***************************************************************************)
MaxKeys == 5
MaxLookahead == 4

KeyLists == {OrientedKeys([i \in 1 .. n |-> i], d) : n \in 0 .. MaxKeys, d \in {"Next", "Prev"}}

InitScan ==
    /\ Init!1 /\ Init!2 /\ Init!3 /\ Init!4 /\ Init!5 /\ Init!6 /\ Init!7 /\ Init!8
    /\ Init!9 /\ Init!10 /\ Init!11 /\ Init!12 /\ Init!13 /\ Init!14 /\ Init!15
    /\ Init!16 /\ Init!17 /\ Init!18 /\ Init!19 /\ Init!20 /\ Init!21 /\ Init!22
    /\ Init!24
    /\ scanCase \in [keys : KeyLists, last : 0 .. MaxKeys + 1, tail : 1 .. MaxKeys + 1,
                     ahead : 0 .. MaxLookahead, lookahead : 1 .. MaxLookahead,
                     done : {FALSE}, out : {NoCase.out}]

\* the frame [tail, ahead] reaches the scan holding last
ApplyScan ==
    /\ ~scanCase.done
    /\ scanCase' = [scanCase EXCEPT
                      !.done = TRUE,
                      !.out = ScanStep(scanCase.keys, scanCase.last, scanCase.tail,
                                       scanCase.ahead, scanCase.lookahead)]
    /\ UNCHANGED <<playing, speed, nodesAhead, direction,
                   stopSubscription, graphModeSubscription, cacheSubscription,
                   playingSubscription, clearSubscription,
                   stateSpeed, graphMode, head,
                   switcher, cache, pool, append, clearCount, watch,
                   orphans, op, calls, window, speedCase>>

NextScan == ApplyScan

SpecScan == InitScan /\ [][NextScan]_vars

(***************************************************************************)
(* Properties.  calls is the record of the step that led to the state, in  *)
(* the order the calls were made; op names the step.                       *)
(***************************************************************************)
\* what the five workers do to the collaborators
WorkerActs ==
    {"appendNodes", "clearPriorNodes", "modeSwitch", "cacheNode$", "emit",
     "cacheSequence$", "cacheSequenceNodes$"}

\* call c with value v was made after stop() began in this step
AfterStop(c, v) ==
    \E i, j \in 1 .. Len(calls) :
        i < j /\ calls[i].c = "stop" /\ calls[j].c = c /\ calls[j].v = v

Subscriptions ==
    <<stopSubscription, graphModeSubscription, cacheSubscription,
      playingSubscription, clearSubscription>>

\* C1: once stop() has run from the playing state no worker acts until the
\* next play(): nothing a worker does follows stop() in the same step, a
\* step that starts and ends stopped holds no worker act at all, and every
\* subscription is gone with what its pipeline held, so that a result still
\* in flight finds no subscriber.
QuietAfterStop ==
    /\ \A i, j \in 1 .. Len(calls) :
          (i < j /\ calls[i].c = "stop") => calls[j].c \notin WorkerActs
    /\ (~playing /\ ~Called("stop")) =>
          \A j \in 1 .. Len(calls) : calls[j].c \notin WorkerActs
    /\ ~playing =>
          /\ \A i \in 1 .. 5 : Subscriptions[i] = "null"
          /\ switcher = "none" /\ cache = NoCache /\ pool = NoPool
          /\ append = NoAppend /\ watch = NoWatch

\* a fetch that was in flight at stop() answers while stopped
QuietAfterStopWitness == ~playing /\ op = "orphanResult" /\ head # NoKey

\* C2: stop() in the playing state resets the advance rate to 1 and the
\* graph mode to spatial, cuts the pending nodes, leaves playing false and
\* emits playing=false exactly once.
StopResets ==
    Called("stop") =>
        /\ stateSpeed = SCALE /\ AfterStop("setSpeed", SCALE)
        /\ graphMode = "Spatial"
        /\ \E i, j \in 1 .. Len(calls) :
              i < j /\ calls[i].c = "stop" /\ calls[j].c = "setGraphMode"
                    /\ calls[j].m = "Spatial"
        /\ AfterStop("cutNodes", 0)
        /\ ~playing
        /\ Count("playing$", "false") = 1

StopResetsWitness == op = "stop" /\ Called("stop") /\ speed = 100

\* C3: play() while playing and stop() while stopped change nothing: no
\* call, no event, and fields, subscriptions and pipelines as they were.
GuardedNoOps ==
    [][((playing /\ op' = "play") \/ (~playing /\ op' = "stop")) =>
          /\ calls' = <<>>
          /\ UNCHANGED <<playing, speed, nodesAhead, direction, Subscriptions,
                         stateSpeed, graphMode, head, switcher, cache, pool, append,
                         clearCount, watch, orphans>>]_vars

\* a second play() in a session whose workers are busy
GuardedNoOpsWitness ==
    op = "play" /\ playing /\ calls = <<>> /\ append.phase # "idle" /\ clearCount = 1

\* C4: when the watcher gets the resolved edge status of the head and it
\* has no edge of the direction, stop() runs once: playing is false after
\* the step and playing=false was emitted exactly once.
WatcherStopsOnce ==
    \A i \in 1 .. Len(calls) :
        (calls[i].c = "edgeStatus" /\ calls[i].m = "cached" /\ calls[i].v = NoKey) =>
            /\ Count("stop", "") = 1
            /\ \E j \in 1 .. Len(calls) : i < j /\ calls[j].c = "stop"
            /\ ~playing
            /\ Count("playing$", "false") = 1

WatcherStopsOnceWitness ==
    /\ op = "headChange"
    /\ \E i \in 1 .. Len(calls) :
          calls[i].c = "edgeStatus" /\ calls[i].m = "cached" /\ calls[i].v = NoKey
    /\ Called("stop")

\* C5: playing goes from false to true in a play() step only.
StoppedUntilPlay == [][(~playing /\ playing') => op' = "play"]_vars

\* stopped with a request still in flight, and the direction is set to one
\* the head has an edge for
StoppedUntilPlayWitness ==
    /\ ~playing /\ op = "setDirection" /\ orphans > 0
    /\ head # NoKey /\ EdgeTo(head, direction) # NoKey

\* C6, as stated: setDirection leaves the playing flag and the workers
\* alone (seen here where no edge status fails).
DirectionKeepsPlaying ==
    (op = "setDirection" /\ ~Called("watchError")) =>
        (~Called("playing$") /\ ~Called("stop"))

\* C6, amended: setDirection never starts playback; it stops playback
\* exactly when the watcher, re-evaluating the head under the new direction,
\* gets at once a status without an edge of that direction; when the flag
\* is unchanged so are the five subscriptions.
DirectionStopsOnlyByWatcher ==
    [][op' = "setDirection" =>
          /\ ~playing => ~playing'
          /\ (playing /\ ~playing') <=>
                (playing /\ \E i \in 1 .. Len(calls') :
                                calls'[i].c = "hasEdge" /\ calls'[i].v = 0)
          /\ (playing' = playing) => UNCHANGED Subscriptions]_vars

DirectionStopsOnlyByWatcherWitness ==
    /\ op = "setDirection" /\ Called("stop") /\ ~playing
    /\ CalledWith("edgeStatus", "cached")

\* C7, as stated: an edge-status failure or timeout in the append worker
\* is logged and leaves playing false.
AppendFailureStops ==
    \A i \in 1 .. Len(calls) :
        (calls[i].c = "appendError" /\ calls[i].m \in {"error", "timeout"}) =>
            (CalledWith("console.error", "append") /\ ~playing)

\* C8: a failure or timeout of the watcher's edge status is logged and then
\* taken as a status without edges: the stream goes on to hasEdge = false
\* and completes, stop() runs once and playing is false.
WatcherFailSafe ==
    \A i \in 1 .. Len(calls) :
        calls[i].c = "watchError" =>
            /\ CalledWith("console.error", "watcher")
            /\ \E j \in 1 .. Len(calls) :
                  i < j /\ calls[j].c = "hasEdge" /\ calls[j].v = 0
            /\ Count("stop", "") = 1
            /\ ~playing
            /\ stopSubscription = "null"

WatcherFailSafeWitness ==
    op = "watchEdgeStatus" /\ CalledWith("watchError", "timeout") /\ Called("stop")

\* C9, as stated: while the sequence key stays the same no batch holds a
\* key an earlier batch held.
NoRepeatInSequence == ~window.repeatSeq

\* C9, amended: within one window of the scan, from its seeding to the next
\* emission of the sequence key, graph mode and direction or to stop(), no
\* batch holds a key an earlier batch held and the accumulated key only
\* moves forward.
NoRepeatInWindow == ~window.repeatWin /\ ~window.backward

\* a second batch of the same window
NoRepeatInWindowWitness ==
    /\ op = "frame" /\ Called("emit")
    /\ Cardinality(window.win) > Cardinality({i \in 1 .. Len(calls) : calls[i].c = "emit"})

\* C10: with frameAhead < lookahead and the accumulated key (the tail key
\* on the first frame) not the final key, the step emits the keys from
\* index_of(last) + 1 up to min(lastIndex, index_of(tail) + lookahead -
\* frameAhead) and accumulates the last of them, or emits nothing and keeps
\* the key when that range is empty; [A..E], tail B, lookahead 3, nothing
\* ahead gives [C, D, E].
ScanFollowsFormula ==
    LET keys       == scanCase.keys
        last       == IF scanCase.last = NoKey THEN scanCase.tail ELSE scanCase.last
        lastIndex  == Len(keys) - 1
        startIndex == IndexOf(keys, last) + 1
        endIndex   == Min(lastIndex, IndexOf(keys, scanCase.tail)
                                       + scanCase.lookahead - scanCase.ahead) + 1
        out        == scanCase.out
    IN  /\ ( /\ scanCase.done
             /\ scanCase.ahead < scanCase.lookahead
             /\ (keys = <<>> \/ keys[Len(keys)] # last) ) =>
               IF endIndex <= startIndex
               THEN out.batch = <<>> /\ out.last = last
               ELSE /\ Len(out.batch) = endIndex - startIndex
                    /\ \A i \in 1 .. Len(out.batch) : out.batch[i] = keys[startIndex + i]
                    /\ out.last = keys[endIndex]
        /\ ( /\ scanCase.done
             /\ keys = <<1, 2, 3, 4, 5>> /\ scanCase.tail = 2 /\ scanCase.last = NoKey
             /\ scanCase.lookahead = 3 /\ scanCase.ahead = 0 ) =>
               out.batch = <<3, 4, 5>>

ScanFollowsFormulaWitness ==
    /\ scanCase.done
    /\ scanCase.keys = <<1, 2, 3, 4, 5>> /\ scanCase.tail = 2 /\ scanCase.last = NoKey
    /\ scanCase.lookahead = 3 /\ scanCase.ahead = 0
    /\ scanCase.out = [last |-> 5, batch |-> <<3, 4, 5>>]

\* C11: a frame with frameAhead >= lookahead, or one that finds the
\* accumulated key (the tail key on the first frame) equal to the final key
\* of the oriented list, gets an empty batch and leaves the accumulated key
\* as it is, wherever the tail is.
ScanIdleKeepsKey ==
    LET keys == scanCase.keys
        last == IF scanCase.last = NoKey THEN scanCase.tail ELSE scanCase.last
    IN  ( /\ scanCase.done
          /\ \/ scanCase.ahead >= scanCase.lookahead
             \/ (keys # <<>> /\ keys[Len(keys)] = last) ) =>
            (scanCase.out.batch = <<>> /\ scanCase.out.last = last)

\* enough nodes ahead although keys lie between the accumulated key and the
\* tail
ScanIdleKeepsKeyWitness ==
    /\ scanCase.done
    /\ scanCase.keys = <<1, 2, 3, 4, 5>> /\ scanCase.last = 1 /\ scanCase.tail = 3
    /\ scanCase.ahead = scanCase.lookahead
    /\ scanCase.out = [last |-> 1, batch |-> <<>>]

(***************************************************************************)
(* SpecSpeed: the service in a world whose user sets speeds below, at and  *)
(* above the threshold and outside [0, 1], with a cached graph.            *)
(***************************************************************************)
SpeedWorld ==
    [heads |-> {1, 3}, dirs |-> {"Next"},
     speeds |-> {-100, -1, 0, 54, 55, 100, 101, 200},
     tails |-> {1}, aheads |-> {0},
     syncEdge |-> {"cached"},
     syncNode |-> {"ok"},
     lateEdge |-> {},
     lateNode |-> {},
     syncWatch |-> {"cached"},
     lateWatch |-> {},
     sequenceAnswers |-> {TRUE},
     inFlight |-> MaxInFlight, buffered |-> 0,
     headEvents |-> MaxHeadEvents]

NextSpeed ==
    \/ Play(SpeedWorld)
    \/ Stop
    \/ SetDirection(SpeedWorld)
    \/ SetSpeed(SpeedWorld)
    \/ Frame(SpeedWorld)
    \/ HeadChange(SpeedWorld)
    \/ SequenceResult(SpeedWorld)
    \/ PrefetchNodeResult
    \/ OrphanResult

SpecSpeed == Init /\ [][NextSpeed]_vars

\* C12: while playing, when a setSpeed call has returned the graph service
\* is in Sequence mode exactly when the stored speed is above 0.54, and in
\* Spatial mode otherwise, 0.54 included.
ModeFollowsSpeed ==
    (playing /\ op = "setSpeed") =>
        graphMode = (IF speed > ModeThreshold THEN "Sequence" ELSE "Spatial")

\* back from a fast speed to exactly 0.54
ModeFollowsSpeedWitness ==
    /\ playing /\ op = "setSpeed" /\ speed = ModeThreshold
    /\ CalledWith("modeSwitch", "Spatial") /\ graphMode = "Spatial"

\* C13: in a setSpeed step of a playing session setGraphMode is called
\* once, with the new mode, when the speed crosses the threshold, and not at
\* all when the old and the new speed lie on the same side of it.
ModeEdgeTriggered ==
    [][(playing /\ op' = "setSpeed") =>
          IF (speed > ModeThreshold) = (speed' > ModeThreshold)
          THEN ~(Called("setGraphMode"))' /\ ~(Called("modeSwitch"))'
          ELSE /\ (Count("setGraphMode", "Sequence") + Count("setGraphMode", "Spatial"))' = 1
               /\ (CalledWith("setGraphMode",
                              IF speed > ModeThreshold THEN "Sequence" ELSE "Spatial"))']_vars

\* a speed change on the fast side: broadcast, no mode call
ModeEdgeTriggeredWitness ==
    /\ playing /\ op = "setSpeed" /\ speed = 100 /\ Called("speed$")
    /\ ~Called("setGraphMode")

\* C14: the stored speed is in [0, 1], and from every state setSpeed with
\* an argument below 0 gives the state, calls and events of setSpeed(0),
\* and with an argument above 1 those of setSpeed(1).
SpeedClamped ==
    /\ speed \in 0 .. 100
    /\ \A s \in SpeedWorld.speeds :
          /\ s < 0 => setSpeed(Begin("setSpeed"), s) = setSpeed(Begin("setSpeed"), 0)
          /\ s > 100 => setSpeed(Begin("setSpeed"), s) = setSpeed(Begin("setSpeed"), 100)

\* playing at half speed, where setSpeed(2) and setSpeed(-1) both act
SpeedClampedWitness ==
    /\ playing /\ speed = 50 /\ head # NoKey
    /\ setSpeed(Begin("setSpeed"), 200).speed = 100
    /\ setSpeed(Begin("setSpeed"), 200).graphMode = "Sequence"
    /\ setSpeed(Begin("setSpeed"), -100).speed = 0

\* C15: from every state, setSpeed with an argument whose clamped value is
\* the stored speed does nothing; otherwise it stores the clamped value and
\* the lookahead that belongs to it, broadcasts the value on speed$ exactly
\* once, and calls the state service's setSpeed, once and with the advance
\* rate of the value, exactly when playing.
SetSpeedEffects ==
    \A s \in SpeedWorld.speeds :
        LET b   == Begin("setSpeed")
            r   == setSpeed(b, s)
            v   == IF s < 0 THEN 0 ELSE IF s > 100 THEN 100 ELSE s
            bc  == {i \in 1 .. Len(r.calls) : r.calls[i].c = "speed$"}
            adv == {i \in 1 .. Len(r.calls) : r.calls[i].c = "setSpeed"}
        IN  IF v = speed
            THEN r = b
            ELSE /\ r.speed = v
                 /\ r.nodesAhead = mapNodesAhead(mapSpeed(v))
                 /\ Cardinality(bc) = 1 /\ \A i \in bc : r.calls[i].v = v
                 /\ Cardinality(adv) = (IF playing THEN 1 ELSE 0)
                 /\ \A i \in adv : r.calls[i].v = mapSpeed(v)
                 /\ r.playing = playing

\* stopped: the new speed is broadcast and the state service is not called
SetSpeedEffectsWitness ==
    /\ op = "setSpeed" /\ ~playing /\ speed = 100 /\ nodesAhead = 50
    /\ Called("speed$") /\ ~Called("setSpeed")

(***************************************************************************)
(* SpecPool: the prefetch scheduler in a world where node fetches answer   *)
(* late and the window is re-seeded again and again, so that requests pile *)
(* up in the pool.                                                         *)
(***************************************************************************)
PoolWorld ==
    [heads |-> {1}, dirs |-> {"Next"}, speeds |-> {},
     tails |-> {1}, aheads |-> {0, 13},
     syncEdge |-> {"cached"},
     syncNode |-> {"ok"},
     lateEdge |-> {},
     lateNode |-> {},
     syncWatch |-> {"pending"},
     lateWatch |-> {},
     sequenceAnswers |-> {TRUE},
     inFlight |-> PoolSize + MaxBuffered, buffered |-> MaxBuffered,
     headEvents |-> MaxHeadEvents]

NextPool ==
    \/ Play(PoolWorld)
    \/ Stop
    \/ SetDirection(PoolWorld)
    \/ Frame(PoolWorld)
    \/ HeadChange(PoolWorld)
    \/ SequenceResult(PoolWorld)
    \/ PrefetchNodeResult
    \/ OrphanResult

SpecPool == Init /\ [][NextPool]_vars

\* the node fetches the pool started in the step
PoolStarts == Count("cacheNode$", "prefetch")
\* the keys the scan emitted in the step
PoolEmits == Count("emit", "")

\* C16: at most 6 prefetch node fetches are in flight; a key waits only
\* while all 6 slots are taken; a frame starts as many fetches as slots were
\* free and queues the rest of its keys; an answer, success or failure,
\* frees a slot, which the first waiting key takes at once.
PoolBounded ==
    [][/\ pool'.active <= PoolSize
       /\ pool'.buffer # <<>> => pool'.active = PoolSize
       /\ (op' = "frame" /\ cacheSubscription' = "open") =>
             /\ PoolStarts' = pool'.active - pool.active
             /\ PoolEmits' - PoolStarts' = Len(pool'.buffer) - Len(pool.buffer)
             /\ PoolStarts' < PoolEmits' => pool'.active = PoolSize
       /\ op' = "prefetchNodeResult" =>
             IF pool.buffer = <<>>
             THEN pool'.active = pool.active - 1 /\ PoolStarts' = 0
             ELSE /\ pool'.active = pool.active /\ pool'.buffer = Tail(pool.buffer)
                  /\ \E i \in 1 .. Len(calls') :
                        /\ calls'[i].c = "cacheNode$" /\ calls'[i].m = "prefetch"
                        /\ calls'[i].v = Head(pool.buffer)]_vars

\* a failed fetch frees the slot for a waiting key
PoolBoundedWitness ==
    /\ op = "prefetchNodeResult" /\ CalledWith("prefetchResult", "error")
    /\ CalledWith("cacheNode$", "prefetch")
    /\ pool.active = PoolSize /\ Len(pool.buffer) = 1

(***************************************************************************)
(* SpecSpeedModel: _mapSpeed and _mapNodesAhead alone, on every pair of ui *)
(* speeds lo <= hi of [0, 1], in hundredths.                               *)
(***************************************************************************)
InitSpeedModel ==
    /\ Init!1 /\ Init!2 /\ Init!3 /\ Init!4 /\ Init!5 /\ Init!6 /\ Init!7 /\ Init!8
    /\ Init!9 /\ Init!10 /\ Init!11 /\ Init!12 /\ Init!13 /\ Init!14 /\ Init!15
    /\ Init!16 /\ Init!17 /\ Init!18 /\ Init!19 /\ Init!20 /\ Init!21 /\ Init!22
    /\ Init!23
    /\ speedCase \in {c \in [lo : 0 .. 100, hi : 0 .. 100, done : {FALSE},
                             loRate : {0}, hiRate : {0}, loAhead : {0}, hiAhead : {0}] :
                        c.lo <= c.hi}

ApplySpeedModel ==
    /\ ~speedCase.done
    /\ speedCase' = [speedCase EXCEPT
                       !.done = TRUE,
                       !.loRate = mapSpeed(speedCase.lo),
                       !.hiRate = mapSpeed(speedCase.hi),
                       !.loAhead = mapNodesAhead(mapSpeed(speedCase.lo)),
                       !.hiAhead = mapNodesAhead(mapSpeed(speedCase.hi))]
    /\ UNCHANGED <<playing, speed, nodesAhead, direction,
                   stopSubscription, graphModeSubscription, cacheSubscription,
                   playingSubscription, clearSubscription,
                   stateSpeed, graphMode, head,
                   switcher, cache, pool, append, clearCount, watch,
                   orphans, op, calls, window, scanCase>>

NextSpeedModel == ApplySpeedModel

SpecSpeedModel == InitSpeedModel /\ [][NextSpeedModel]_vars

\* C17: for every ui speed the lookahead is round(clamp(8 + 6 rate, 10, 50))
\* of its advance rate, a whole number from 10 to 50, and a higher ui speed
\* never has a smaller lookahead.
LookaheadInRange ==
    speedCase.done =>
        LET x == 8 * SCALE + 6 * speedCase.hiRate
            c == IF x < 10 * SCALE THEN 10 * SCALE
                 ELSE IF x > 50 * SCALE THEN 50 * SCALE ELSE x
        IN  /\ speedCase.hiAhead \in 10 .. 50
            /\ speedCase.hiAhead * SCALE <= c + SCALE \div 2
            /\ c + SCALE \div 2 < (speedCase.hiAhead + 1) * SCALE
            /\ speedCase.loAhead <= speedCase.hiAhead

\* the two ends of the range
LookaheadInRangeWitness ==
    /\ speedCase.done /\ speedCase.lo = 0 /\ speedCase.hi = 100
    /\ speedCase.loAhead = 10 /\ speedCase.hiAhead = 50

\* what stop() does, in order, from the playing state
StopSteps ==
    << <<"unsubscribe", "stop">>, <<"unsubscribe", "graphMode">>,
       <<"unsubscribe", "cache">>, <<"unsubscribe", "playing">>,
       <<"unsubscribe", "clear">>, <<"setSpeed", "">>, <<"cutNodes", "">>,
       <<"setGraphMode", "Spatial">>, <<"playing$", "false">> >>

\* the calls that follow the start of stop() in the step
StopTrace ==
    LET i    == CHOOSE k \in 1 .. Len(calls) : calls[k].c = "stop"
        rest == SubSeq(calls, i + 1, Len(calls))
    IN  [k \in 1 .. Len(rest) |-> <<rest[k].c, rest[k].m>>]

\* C18, as stated: stop() unsubscribes the termination watcher, the mode
\* switcher, the prefetch scheduler, the append worker and the clear worker
\* in this order, and then resets the collaborators and emits
\* playing=false.
StopOrderAlways == Called("stop") => StopTrace = StopSteps

\* C18, amended: as stated, except that a stop() which the watcher triggers
\* inside play(), where the watcher's subscription is not stored yet,
\* cancels the four other workers only, in the same order.
StopOrder ==
    Called("stop") =>
        StopTrace = (IF op = "play" THEN Tail(StopSteps) ELSE StopSteps)

\* stop() called by the user while requests are in flight
StopOrderWitness ==
    op = "stop" /\ Called("stop") /\ CalledWith("unsubscribe", "stop") /\ orphans > 0

\* the places in the step's record where c is called with m
Places(c, m) == {i \in 1 .. Len(calls) : calls[i].c = c /\ calls[i].m = m}

\* C19: a play() that leaves the stopped state first calls cutNodes(), then
\* setSpeed with the advance rate of the stored speed, and only then
\* subscribes the five workers, each once; it emits playing=true exactly
\* once, and playing is true when it returns unless the watcher has stopped
\* playback within the call.
PlayOrder ==
    (op = "play" /\ calls # <<>>) =>
        /\ calls[1].c = "cutNodes"
        /\ calls[2].c = "setSpeed" /\ calls[2].v = mapSpeed(speed)
        /\ \A i \in 1 .. Len(calls) :
              (calls[i].c \in WorkerActs \cup {"subscribe"}) => i > 2
        /\ \A w \in {"graphMode", "cache", "playing", "clear", "stop"} :
              Cardinality(Places("subscribe", w)) = 1
        /\ Count("playing$", "true") = 1
        /\ \A i \in Places("playing$", "true") :
              \A j \in Places("subscribe", "clear") : j < i
        /\ ~Called("stop") => (playing /\ ~CalledWith("playing$", "false"))

\* play() at full speed with a head: the workers act within the call
PlayOrderWitness ==
    /\ op = "play" /\ playing /\ speed = 100 /\ stateSpeed = mapSpeed(100)
    /\ head # NoKey /\ Called("clearPriorNodes") /\ CalledWith("modeSwitch", "Sequence")

(***************************************************************************)
(* SpecWindow: the prefetch scheduler in a world whose head moves inside   *)
(* its sequence and to another one, and whose user turns the direction.    *)
(***************************************************************************)
WindowWorld ==
    [heads |-> {1, 2, 4}, dirs |-> {"Next", "Prev"}, speeds |-> {},
     tails |-> {1, 2}, aheads |-> {0, 13},
     syncEdge |-> {"cached"},
     syncNode |-> {"ok"},
     lateEdge |-> {},
     lateNode |-> {},
     syncWatch |-> {"pending"},
     lateWatch |-> {},
     sequenceAnswers |-> {TRUE},
     inFlight |-> MaxInFlight, buffered |-> 0,
     headEvents |-> MaxHeadEvents]

NextWindow ==
    \/ Play(WindowWorld)
    \/ Stop
    \/ SetDirection(WindowWorld)
    \/ Frame(WindowWorld)
    \/ HeadChange(WindowWorld)
    \/ SequenceResult(WindowWorld)
    \/ PrefetchNodeResult
    \/ OrphanResult

SpecWindow == Init /\ [][NextWindow]_vars

IsEmit(x) == x.c = "emit"
\* the keys the scan emitted in the step, in order
Emitted == SelectSeq(calls, IsEmit)
\* the tail key of the frame the scan took in the step
FrameTail == calls[CHOOSE i \in 1 .. Len(calls) : calls[i].c = "tail"].v
\* the prefetch scheduler is subscribed before and after the step
CacheStays == cacheSubscription = "open" /\ cacheSubscription' = "open"
SequenceFetched == Called("cacheSequence$") \/ Called("cacheSequenceNodes$")

FreeWorld ==
    [heads |-> {1}, dirs |-> {"Next", "StepForward"}, speeds |-> {},
     tails |-> {1}, aheads |-> {0, 13},
     syncEdge |-> {"cached"},
     syncNode |-> {"ok"},
     lateEdge |-> {},
     lateNode |-> {},
     syncWatch |-> {"pending"},
     lateWatch |-> {},
     sequenceAnswers |-> {TRUE},
     inFlight |-> PoolSize + MaxBuffered, buffered |-> MaxBuffered,
     headEvents |-> MaxHeadEvents]

NextFree ==
    \/ Play(FreeWorld)
    \/ Stop
    \/ SetDirection(FreeWorld)
    \/ Frame(FreeWorld)
    \/ HeadChange(FreeWorld)
    \/ SequenceResult(FreeWorld)
    \/ PrefetchNodeResult
    \/ OrphanResult

SpecFree == Init /\ [][NextFree]_vars

\* the scheduler is subscribed and the direction is a free one
FreeDirection == cacheSubscription = "open" /\ ~IsSequenceDirection(direction)

\* C21, as stated: under a free direction no Sequence is resolved, no key
\* is emitted and no prefetch node fetch is started.
FreeDirectionNoRequest ==
    FreeDirection =>
        (~SequenceFetched /\ ~Called("emit") /\ ~CalledWith("cacheNode$", "prefetch"))

\* C21, amended: under a free direction no Sequence is resolved or awaited,
\* no scan runs and no key is emitted, whatever frames arrive; the only
\* prefetch node fetch that starts is that of a key emitted earlier which
\* waited in the pool, when an answer frees its slot.
FreeDirectionQuiet ==
    [][FreeDirection' =>
          /\ ~SequenceFetched' /\ ~(Called("emit"))' /\ ~(Called("scan"))'
          /\ cache'.fetchSeq = 0 /\ cache'.scanSeq = 0
          /\ cache'.lastRequestKey = NoKey
          /\ (CalledWith("cacheNode$", "prefetch"))' =>
                /\ op' = "prefetchNodeResult" /\ pool.buffer # <<>>
                /\ pool'.buffer = Tail(pool.buffer)
                /\ (Count("cacheNode$", "prefetch"))' = 1]_vars

\* a frame arrives under a free direction while fetches of the last window
\* are still in flight
FreeDirectionQuietWitness ==
    op = "frame" /\ FreeDirection /\ playing /\ pool.active > 0 /\ calls = <<>>

(***************************************************************************)
(* SpecRetry: the prefetch scheduler in a world whose sequence fetches may *)
(* fail, with a head that changes sequence, a user who turns the direction *)
(* and speeds on both sides of the mode threshold.                         *)
(***************************************************************************)
RetryWorld ==
    [heads |-> {1, 4}, dirs |-> {"Next"}, speeds |-> {50, 100},
     tails |-> {1}, aheads |-> {0},
     syncEdge |-> {"cached"},
     syncNode |-> {"ok"},
     lateEdge |-> {},
     lateNode |-> {},
     syncWatch |-> {"pending"},
     lateWatch |-> {},
     sequenceAnswers |-> BOOLEAN,
     inFlight |-> MaxInFlight, buffered |-> 0,
     headEvents |-> MaxHeadEvents]

NextRetry ==
    \/ Play(RetryWorld)
    \/ Stop
    \/ SetDirection(RetryWorld)
    \/ SetSpeed(RetryWorld)
    \/ Frame(RetryWorld)
    \/ HeadChange(RetryWorld)
    \/ SequenceResult(RetryWorld)
    \/ PrefetchNodeResult
    \/ OrphanResult

SpecRetry == Init /\ [][NextRetry]_vars

\* the sequence fetches started in the step that are retries
SequenceRetries ==
    Count("cacheSequence$", "retry") + Count("cacheSequenceNodes$", "retry")
\* the combineLatest of the scheduler emits in the step: a new sequence
\* key, a new graph mode or a direction
CacheCycleStarts ==
    \/ op' = "setDirection"
    \/ op' = "headChange" /\ SequenceKeyOf(head') # cache.key
    \/ op' = "setSpeed" /\ graphMode' # graphMode

\* C22: a failed Sequence fetch is fetched again, up to 3 times for one
\* cycle; the failure after the third retry ends the cycle: no fetch is
\* pending, no window is live and frames emit nothing; no failure stops
\* playback, logs an error or changes a subscription; and with the
\* scheduler idle after such a failure the next sequence key, graph mode or
\* direction starts a new fetch with its retries to come.
SequenceFailureSkipsCycle ==
    [][/\ (op' = "sequenceResult" /\ (CalledWith("sequenceAnswer", "error"))') =>
             /\ playing' = playing /\ UNCHANGED Subscriptions
             /\ ~(Called("emit"))' /\ ~(Called("stop"))' /\ ~(Called("console.error"))'
             /\ ~(Called("playing$"))'
             /\ IF cache.tries < RetryCount
                THEN /\ cache'.tries = cache.tries + 1
                     /\ cache'.fetchSeq = cache.fetchSeq /\ cache'.fetchDir = cache.fetchDir
                     /\ SequenceRetries' = 1
                ELSE /\ cache' = [NoCache EXCEPT !.key = cache.key]
                     /\ ~SequenceFetched'
       /\ cache'.tries \in 0 .. RetryCount
       /\ (op' = "frame" /\ cache.scanSeq = 0) => ~(Called("emit"))'
       /\ (CacheStays /\ cache.key # 0 /\ cache.fetchSeq = 0 /\ cache.scanSeq = 0
               /\ CacheCycleStarts) =>
             /\ SequenceFetched' /\ SequenceRetries' = 0
             /\ cache'.fetchSeq = cache'.key /\ cache'.tries = 0]_vars

\* the fetch has failed for the fourth time and playback goes on
SequenceFailureSkipsCycleWitness ==
    /\ op = "sequenceResult" /\ CalledWith("sequenceAnswer", "error")
    /\ ~SequenceFetched /\ cache.key = 1 /\ cache.fetchSeq = 0 /\ playing
    /\ cacheSubscription = "open"

\* C23: the failure of one prefetch node fetch changes neither the playing
\* flag nor a subscription nor the scheduler's window, stops nothing and
\* logs nothing; the other fetches stay in flight and the waiting keys stay
\* queued, but for the first of them, which takes the freed slot; the
\* service is left in the state the success of the fetch would have left
\* it in, so that later batches are fetched as before.
PrefetchFailureDropped ==
    [][(op' = "prefetchNodeResult" /\ (CalledWith("prefetchResult", "error"))') =>
          /\ playing' = playing /\ UNCHANGED Subscriptions
          /\ cacheSubscription' = "open" /\ cache' = cache
          /\ ~(Called("stop"))' /\ ~(Called("console.error"))' /\ ~(Called("playing$"))'
          /\ pool'.active + Len(pool'.buffer) = pool.active + Len(pool.buffer) - 1
          /\ pool'.active = (IF pool.buffer = <<>> THEN pool.active - 1 ELSE pool.active)
          /\ [St' EXCEPT !.calls = <<>>]
                = [PoolRelease(Begin("prefetchNodeResult")) EXCEPT !.calls = <<>>]]_vars

\* one fetch of a batch fails while another one is in flight
PrefetchFailureDroppedWitness ==
    /\ op = "prefetchNodeResult" /\ CalledWith("prefetchResult", "error")
    /\ playing /\ pool.active > 0 /\ pool.buffer = <<>> /\ cache.lastRequestKey # NoKey

\* C24: when the append worker gets the resolved edge status of its tail
\* and it has no edge of the direction, the worker fetches and appends
\* nothing and logs no error; a frame or edge-status step in which this
\* happens calls no stop() and leaves the playing flag and the five
\* subscriptions alone; within play() only the watcher, finding no edge of
\* its own, stops; and unless it does the worker stays subscribed, idle,
\* with the tail it has seen.
AppendNoEdgeSilent ==
    [][(Called("appendNoEdge"))' =>
          /\ ~(Called("appendNodes"))' /\ ~(CalledWith("cacheNode$", "append"))'
          /\ ~(Called("appendError"))' /\ ~(CalledWith("console.error", "append"))'
          /\ op' \in {"play", "frame", "appendEdgeStatus"}
          /\ op' # "play" =>
                /\ ~(Called("stop"))' /\ ~(Called("playing$"))'
                /\ playing' = playing /\ UNCHANGED Subscriptions
          /\ (Called("stop"))' =>
                \E i \in 1 .. Len(calls') : calls'[i].c = "hasEdge" /\ calls'[i].v = 0
          /\ ~(Called("stop"))' =>
                /\ playing' /\ playingSubscription' = "open"
                /\ append'.phase = "idle" /\ append'.key # NoKey]_vars

\* the late edge status of the tail has no edge backward
AppendNoEdgeSilentWitness ==
    /\ op = "appendEdgeStatus" /\ Called("appendNoEdge") /\ playing
    /\ direction = "Prev" /\ append.key = 1 /\ playingSubscription = "open"

(***************************************************************************)
(* SpecAppend: the append worker in a world whose frames carry two tails,  *)
(* whose edge statuses and nodes answer at once or late, and whose user    *)
(* turns the direction.  The Sequence fetch of the prefetch scheduler does *)
(* not answer here.                                                        *)
(***************************************************************************)
AppendWorld ==
    [heads |-> {1}, dirs |-> {"Next", "Prev"}, speeds |-> {},
     tails |-> {1, 2}, aheads |-> {0, 14},
     syncEdge |-> {"pending", "cached"},
     syncNode |-> {"pending", "ok"},
     lateEdge |-> {"cached"},
     lateNode |-> {"ok"},
     syncWatch |-> {"pending"},
     lateWatch |-> {},
     sequenceAnswers |-> {TRUE},
     inFlight |-> MaxInFlight, buffered |-> 0,
     headEvents |-> MaxHeadEvents]

NextAppend ==
    \/ Play(AppendWorld)
    \/ Stop
    \/ SetDirection(AppendWorld)
    \/ Frame(AppendWorld)
    \/ HeadChange(AppendWorld)
    \/ AppendEdgeStatus(AppendWorld)
    \/ AppendNodeResult(AppendWorld)
    \/ OrphanResult

SpecAppend == Init /\ [][NextAppend]_vars

\* what the append worker does in the record cs of a step
AppendActs(cs) ==
    {i \in 1 .. Len(cs) :
        \/ cs[i].c \in {"appendNodes", "appendNoEdge", "appendError"}
        \/ cs[i].c = "cacheNode$" /\ cs[i].m = "append"}
\* the appendNodes calls of the record cs
Appends(cs) == {i \in 1 .. Len(cs) : cs[i].c = "appendNodes"}

\* C25: a resolution of the append worker starts in a frame step only (a
\* frame of its own or the one replayed to play()); from every state a
\* frame with cachedAhead >= lookahead starts none and makes the worker do
\* nothing, whatever its tail; a step appends at most once, one node, the
\* target of the edge of the triggering tail in the direction taken with
\* the trigger, and the append ends the resolution.
AppendOnePerTrigger ==
    [][/\ (append'.key # NoKey /\ append'.key # append.key) => op' \in {"frame", "play"}
       /\ (append'.phase # "idle" /\ append.phase = "idle") => op' \in {"frame", "play"}
       /\ \A f \in FramesOf(AppendWorld) :
          \A eres \in AppendWorld.syncEdge, nres \in AppendWorld.syncNode :
             f.ahead >= nodesAhead =>
                LET r == IF playing
                         THEN frame(Begin("frame"), f.tail, f.ahead, eres, nres)
                         ELSE play(Begin("play"), f, eres, nres, "pending")
                IN  /\ AppendActs(r.calls) = {}
                    /\ r.append = (IF playing THEN append ELSE NoAppend)
       /\ Cardinality(Appends(calls')) <= 1
       /\ \A i \in Appends(calls') :
             /\ calls'[i].v # NoKey
             /\ calls'[i].v =
                   (IF op' \in {"frame", "play"}
                    THEN EdgeTo(append'.key, direction)
                    ELSE EdgeTo(append.node, append.dir))
             /\ append'.phase = "idle" /\ append'.target = NoKey
             /\ op' \in {"frame", "play"} \/ append.phase # "idle"]_vars

\* the node fetched for tail 2 arrives and is appended, the only append of
\* its trigger
AppendOnePerTriggerWitness ==
    /\ op = "appendNodeResult" /\ playing /\ append.key = 2 /\ append.phase = "idle"
    /\ Cardinality(Appends(calls)) = 1

\* a frame with a new tail passes the filter in the step while a resolution
\* is in flight
AppendSuperseded ==
    /\ op' = "frame" /\ append.phase # "idle"
    /\ append'.key # append.key /\ append'.key # NoKey

\* C26: the worker holds one resolution, that of the latest tail that
\* passed the filter; a new such tail replaces the resolution in flight,
\* whose request goes on without a subscriber; the answer of such a request
\* does nothing, and what is appended is always the target of the latest
\* tail.
AppendLatestWins ==
    [][/\ append'.phase # "idle" =>
             /\ append'.node = append'.key
             /\ append'.phase = "node" =>
                   append'.target = EdgeTo(append'.node, append'.dir)
       /\ AppendSuperseded =>
             /\ orphans' = Min(MaxOrphans, orphans + 1)
             /\ \A i \in Appends(calls') : calls'[i].v = EdgeTo(append'.key, direction)
       /\ op' = "orphanResult" =>
             /\ calls' = <<>> /\ append' = append /\ orphans' = orphans - 1
       /\ op' \in {"appendEdgeStatus", "appendNodeResult"} =>
             \A i \in Appends(calls') : calls'[i].v = EdgeTo(append.key, append.dir)]_vars

\* the answer for the superseded tail 1 arrives while tail 2 is being
\* resolved
AppendLatestWinsWitness ==
    /\ op = "orphanResult" /\ playing /\ append.key = 2 /\ append.phase # "idle"
    /\ calls = <<>>

(***************************************************************************)
(* SpecClear: the clear worker in a world whose head moves more than twice *)
(* as often as the worker's period, with a watcher that stays pending.     *)
(***************************************************************************)
\* Head events one playing session may see here.
MaxClearEvents == 21

ClearWorld ==
    [heads |-> {1, 2}, dirs |-> {"Next"}, speeds |-> {},
     tails |-> {1}, aheads |-> {0},
     syncEdge |-> {"cached"},
     syncNode |-> {"ok"},
     lateEdge |-> {},
     lateNode |-> {},
     syncWatch |-> {"pending"},
     lateWatch |-> {},
     sequenceAnswers |-> {TRUE},
     inFlight |-> MaxInFlight, buffered |-> 0,
     headEvents |-> MaxClearEvents]

NextClear ==
    \/ Play(ClearWorld)
    \/ Stop
    \/ HeadChange(ClearWorld)
    \/ OrphanResult

SpecClear == Init /\ [][NextClear]_vars

\* the clearPriorNodes calls of the step
Clears == Count("clearPriorNodes", "")

\* C27: the clear worker counts the head events of a playing session, the
\* head replayed to play() being the first; it calls clearPriorNodes once
\* on the k-th of them when k mod 10 = 1, and neither on another head event
\* nor in any other step; play() starts the count again.
ClearEveryTenth ==
    [][/\ (op' = "headChange" /\ clearSubscription = "open") =>
             LET k == clearCount + 1
             IN  /\ Clears' = (IF k % BufferEvery = 1 THEN 1 ELSE 0)
                 /\ clearSubscription' = "open" => clearCount' = k
       /\ (op' = "headChange" /\ clearSubscription # "open") => Clears' = 0
       /\ (op' = "play" /\ ~playing) =>
             /\ Clears' = (IF head # NoKey THEN 1 ELSE 0)
             /\ clearSubscription' = "open" => clearCount' = Clears'
       /\ (op' = "play" /\ playing) => Clears' = 0
       /\ op' \notin {"headChange", "play"} => Clears' = 0
       /\ clearSubscription' # "open" => clearCount' = 0]_vars

\* the eleventh head event of a session
ClearEveryTenthWitness ==
    op = "headChange" /\ playing /\ clearCount = BufferEvery + 1 /\ Clears = 1

\* the keys emitted in the record cs, in order
EmittedIn(cs) ==
    LET em == SelectSeq(cs, IsEmit) IN [i \in 1 .. Len(em) |-> em[i].v]

\* C28: in every state the stored lookahead is the lookahead of the advance
\* rate of the stored speed, and a frame that arrives in the state is
\* handled with it: the append worker takes a new tail exactly when the
\* frame has fewer nodes ahead than this lookahead, and the live scan makes
\* the step of this lookahead.
LookaheadCurrent ==
    LET lookahead == mapNodesAhead(mapSpeed(speed))
    IN  /\ nodesAhead = lookahead
        /\ \A f \in FramesOf(World) :
              LET r == frame(Begin("frame"), f.tail, f.ahead, "pending", "pending")
              IN  /\ (playingSubscription = "open" /\ f.tail # append.key) =>
                        ((r.append.key = f.tail) <=> (f.ahead < lookahead))
                  /\ (cacheSubscription = "open" /\ cache.scanSeq # 0) =>
                        LET keys == OrientedKeys(SequenceKeys(cache.scanSeq), cache.scanDir)
                            step == ScanStep(keys, cache.lastRequestKey, f.tail, f.ahead,
                                             lookahead)
                        IN  /\ EmittedIn(r.calls) = step.batch
                            /\ r.cache.lastRequestKey = step.last

\* the speed has been raised while playing, and a frame with as many nodes
\* ahead as the old lookahead would now make both workers act
LookaheadCurrentWitness ==
    /\ op = "setSpeed" /\ playing /\ speed = 100 /\ nodesAhead = 50
    /\ playingSubscription = "open" /\ append.key = NoKey
    /\ cacheSubscription = "open" /\ cache.scanSeq # 0
    /\ LET r == frame(Begin("frame"), 1, 14, "pending", "pending")
       IN  r.append.key = 1 /\ EmittedIn(r.calls) = <<2, 3>>

(***************************************************************************)
(* SpecStall: the service in a world whose graph is cached, so that every  *)
(* edge status and node arrives at once, and whose trajectory ends in node *)
(* 1 with one node ahead of the head, as long as nothing is appended.  The *)
(* Sequence fetch of the prefetch scheduler does not answer here.  The     *)
(* state service goes on emitting frames: Frame is weakly fair.            *)
(***************************************************************************)
StallWorld ==
    [heads |-> {1, 2}, dirs |-> {"Next", "Prev"}, speeds |-> {50, 100},
     tails |-> {1}, aheads |-> {1},
     syncEdge |-> {"cached"},
     syncNode |-> {"ok"},
     lateEdge |-> {},
     lateNode |-> {},
     syncWatch |-> {"cached"},
     lateWatch |-> {},
     sequenceAnswers |-> {TRUE},
     inFlight |-> MaxInFlight, buffered |-> 0,
     headEvents |-> MaxHeadEvents]

NextStall ==
    \/ Play(StallWorld)
    \/ Stop
    \/ SetDirection(StallWorld)
    \/ SetSpeed(StallWorld)
    \/ Frame(StallWorld)
    \/ HeadChange(StallWorld)
    \/ OrphanResult

SpecStall == Init /\ [][NextStall]_vars /\ WF_vars(Frame(StallWorld))

\* the append worker found no edge of the direction it took with the tail,
\* so the tail is still the end of the trajectory, and the user has just
\* set a direction the tail has an edge of
TailEdgeRestored ==
    /\ playing /\ op = "setDirection" /\ playingSubscription = "open"
    /\ append.key # NoKey /\ append.phase = "idle"
    /\ EdgeTo(append.key, append.dir) = NoKey
    /\ EdgeTo(append.key, direction) # NoKey

\* C29, as stated, in the case it names: playing, with fewer nodes ahead
\* than the lookahead and a tail that had no edge of the previous direction
\* and has a resolved one of the direction now set, a node is eventually
\* appended or playback stops.
NoStallAfterDirection ==
    TailEdgeRestored ~> (Called("appendNodes") \/ ~playing)

\* C30, as stated: after every step, when playing is true the mode
\* switcher, the prefetch scheduler, the append worker and the clear worker
\* are subscribed, and when it is false none of the five workers is.
PlayingAgreesWithWorkers ==
    /\ playing =>
          /\ graphModeSubscription = "open" /\ cacheSubscription = "open"
          /\ playingSubscription = "open" /\ clearSubscription = "open"
    /\ ~playing => \A i \in 1 .. 5 : Subscriptions[i] # "open"

\* C31: after every step the advance rate the state service holds is the
\* advance rate of the stored speed when playing is true, and 1 when it is
\* false.
RateFollowsPlaying ==
    stateSpeed = (IF playing THEN mapSpeed(speed) ELSE SCALE)

\* the watcher has stopped a session played at full speed
RateFollowsPlayingWitness ==
    /\ op = "watchEdgeStatus" /\ Called("stop") /\ ~playing
    /\ speed = 100 /\ stateSpeed = SCALE /\ mapSpeed(speed) # SCALE

\* C32, as stated: a failure of the fetch of the append worker's target
\* node is logged and not retried, and leaves playing false.
AppendNodeFailureStops ==
    \A i \in 1 .. Len(calls) :
        (calls[i].c = "appendError" /\ calls[i].m = "node") =>
            /\ CalledWith("console.error", "append")
            /\ Count("cacheNode$", "append") <= 1
            /\ ~playing

\* the nodes ahead of the frame the scan took in the step
FrameAhead == calls[CHOOSE i \in 1 .. Len(calls) : calls[i].c = "ahead"].v

\* C33: in a frame step of a live window the emitted keys are the keys of
\* the oriented sequence that follow, one by one, the accumulated key (the
\* frame's tail key when the window is seeded by this frame; an absent key
\* has index -1); none has an index above index_of(tail) + lookahead -
\* cachedAhead of the frame; the last of them is accumulated; and the keys
\* emitted since the seeding are the run of the sequence that ends at the
\* accumulated key.
BatchesGapFree ==
    [][(CacheStays /\ op' = "frame" /\ cache.scanSeq # 0) =>
          LET keys == OrientedKeys(SequenceKeys(cache.scanSeq), cache.scanDir)
              last == IF cache.lastRequestKey = NoKey THEN FrameTail'
                      ELSE cache.lastRequestKey
              em   == EmittedIn(calls')
              top  == IndexOf(keys, cache'.lastRequestKey)
              n    == Cardinality(window'.win)
          IN  /\ \A i \in 1 .. Len(em) :
                    /\ em[i] # NoKey
                    /\ em[i] = At(keys, IndexOf(keys, last) + i)
                    /\ IndexOf(keys, em[i])
                          <= IndexOf(keys, FrameTail') + nodesAhead - FrameAhead'
              /\ cache'.lastRequestKey = (IF em = <<>> THEN last ELSE em[Len(em)])
              /\ window'.win = window.win \cup Range(em)
              /\ n > 0 => window'.win = {At(keys, j) : j \in (top - n + 1) .. top}]_vars

\* a second batch of a window, held back by the nodes ahead of its frame
BatchesGapFreeWitness ==
    /\ op = "frame" /\ cacheSubscription = "open" /\ cache.scanSeq = 1
    /\ EmittedIn(calls) = <<3>> /\ window.win = {2, 3} /\ FrameTail = 2
    /\ FrameAhead = 13

=============================================================================
